---- MODULE Spec2Model ----
(***************************************************************************)
(* terradep: the graph construction engine.                                *)
(*   - Scanner.Scan / buildTree    (package terradep, scanner)             *)
(*   - BuildDOTGraph               (package encoding)                      *)
(*   - MergeGraphs                 (package terradep, merge)               *)
(*                                                                         *)
(* A State (s3StateURL, a string) is a number of 1..MaxStates; a path is a *)
(* number of 1..MaxPaths and NoPath is Go's empty string.  A *Node is an   *)
(* index into heap, and Nil is the nil pointer.                            *)
(***************************************************************************)
EXTENDS Integers, Sequences, FiniteSets, Bags, TLC

MaxPaths == 3
MaxStates == 3
MaxDeps == 3
MaxDirs == 2
MaxCmdDeps == 2

NoPath == 0
Nil == 0

Paths == 1..MaxPaths
States == 1..MaxStates

\* State.String(): s3StateURL renders as the string it is.
String(s) == s

EmptyMap == [x \in {} |-> Nil]

Range(f) == {f[x] : x \in DOMAIN f}

\* the Nodes reachable from a set of Nodes through Children
RECURSIVE ReachableFrom(_, _)
ReachableFrom(h, S) ==
    LET T == S \cup UNION {Range(h[n].Children) : n \in S}
    IN  IF T = S THEN S ELSE ReachableFrom(h, T)

\* every order in which Go may enumerate the keys of a map
Perms(S) == {q \in [1..Cardinality(S) -> S] : \A x \in S : \E i \in DOMAIN q : q[i] = x}

\* the lists of at most n States
RECURSIVE StateLists(_)
StateLists(n) == IF n = 0 THEN {<<>>}
                 ELSE StateLists(n - 1) \cup [1..n -> States]

\* modDeps for the deployments 1..k holding at most budget references in all
RECURSIVE DepMaps(_, _)
DepMaps(k, budget) ==
    IF k = 0 THEN {<<>>}
    ELSE UNION {{Append(rest, l) : rest \in DepMaps(k - 1, budget - Len(l))}
                : l \in StateLists(budget)}

(***************************************************************************)
(* Node and buildTree                                                      *)
(***************************************************************************)
NewNode(path, state) ==
    [Path |-> path, State |-> state, Parent |-> Nil, Children |-> <<>>]

\* buildTree's first loop: one Node per entry of states, in map order
makeNodes(states, order) ==
    [i \in 1..Len(order) |-> NewNode(order[i], states[order[i]])]

RECURSIVE groupByPathFrom(_, _, _)
groupByPathFrom(nodes, i, out) ==
    IF i > Len(nodes) THEN [panic |-> FALSE, map |-> out]
    ELSE IF nodes[i].Path \in DOMAIN out
         THEN [panic |-> TRUE, kind |-> "duplicate path", key |-> nodes[i].Path,
               first |-> out[nodes[i].Path], second |-> i]
         ELSE groupByPathFrom(nodes, i + 1, out @@ (nodes[i].Path :> i))

groupByPath(nodes) == groupByPathFrom(nodes, 1, EmptyMap)

\* as groupByStateFrom, but a later Node of a State replaces the earlier one
RECURSIVE groupByStateFrom_Overwrite(_, _, _)
groupByStateFrom_Overwrite(nodes, i, out) ==
    IF i > Len(nodes) THEN [panic |-> FALSE, map |-> out]
    ELSE groupByStateFrom_Overwrite(nodes, i + 1, (nodes[i].State :> i) @@ out)

RECURSIVE groupByStateFrom(_, _, _)
groupByStateFrom(nodes, i, out) ==
    IF i > Len(nodes) THEN [panic |-> FALSE, map |-> out]
    ELSE IF nodes[i].State \in DOMAIN out
         THEN [panic |-> TRUE, kind |-> "duplicate state", key |-> nodes[i].State,
               first |-> out[nodes[i].State], second |-> i]
         ELSE groupByStateFrom(nodes, i + 1, out @@ (nodes[i].State :> i))

groupByState(nodes) == groupByStateFrom(nodes, 1, EmptyMap)

\* as childNodeOf, but a miss makes no Node: the first Node stands in
childNodeOf_NoExternal(h, byState, childState) ==
    IF childState \in DOMAIN byState
    THEN [heap |-> h, child |-> byState[childState]]
    ELSE [heap |-> h, child |-> 1]

\* the lookup of childState in nodesByState, and the external Node made on a miss
childNodeOf(h, byState, childState) ==
    IF childState \in DOMAIN byState
    THEN [heap |-> h, child |-> byState[childState]]
    ELSE [heap |-> Append(h, NewNode(NoPath, childState)), child |-> Len(h) + 1]

\* as linkNodes, but a second referrer clears the Parent the first one set
linkNodes_Unset(h, parent, child) ==
    LET h1 == [h EXCEPT ![parent].Children = Append(@, child)]
    IN  [h1 EXCEPT ![child].Parent = IF @ = Nil THEN parent ELSE Nil]

\* parentNode.Children = append(parentNode.Children, childNode); childNode.Parent = parentNode
linkNodes(h, parent, child) ==
    LET h1 == [h EXCEPT ![parent].Children = Append(@, child)]
    IN  [h1 EXCEPT ![child].Parent = parent]

\* as linkChild, but only Children is appended to
linkChild_ChildrenOnly(h, byPath, byState, parentPath, childState) ==
    LET r == childNodeOf(h, byState, childState)
    IN  [r.heap EXCEPT ![byPath[parentPath]].Children = Append(@, r.child)]

\* one iteration of the inner loop of buildTree
linkChild(h, byPath, byState, parentPath, childState) ==
    LET r == childNodeOf(h, byState, childState)
    IN  linkNodes(r.heap, byPath[parentPath], r.child)

\* the nodes (of the first n of the heap, the slice nodes) without Parent
RECURSIVE rootsFrom(_, _, _)
rootsFrom(h, n, i) ==
    IF i > n THEN <<>>
    ELSE IF h[i].Parent = Nil THEN <<i>> \o rootsFrom(h, n, i + 1)
         ELSE rootsFrom(h, n, i + 1)

collectRoots(h, n) == rootsFrom(h, n, 1)

(***************************************************************************)
(* package encoding: BuildDOTGraph                                         *)
(***************************************************************************)
\* getAllChildren recurses once per Children link.  A chain of links longer
\* than the number of Nodes passes some Node twice, so the recursion never
\* returns and the goroutine dies of stack overflow: overflow is TRUE.
RECURSIVE getAllChildrenAt(_, _, _), childrenFrom(_, _, _, _)
getAllChildrenAt(h, n, depth) ==
    IF depth > Len(h) THEN [overflow |-> TRUE, out |-> <<>>]
    ELSE IF Len(h[n].Children) = 0 THEN [overflow |-> FALSE, out |-> <<>>]
    ELSE LET below == childrenFrom(h, h[n].Children, 1, depth)
         IN  [overflow |-> below.overflow, out |-> h[n].Children \o below.out]

\* for _, child := range n.Children { out = append(out, getAllChildren(child)...) }
childrenFrom(h, children, i, depth) ==
    IF i > Len(children) THEN [overflow |-> FALSE, out |-> <<>>]
    ELSE LET a == getAllChildrenAt(h, children[i], depth + 1)
         IN  IF a.overflow THEN a
             ELSE LET b == childrenFrom(h, children, i + 1, depth)
                  IN  [overflow |-> b.overflow, out |-> a.out \o b.out]

getAllChildren(h, n) == getAllChildrenAt(h, n, 1)

\* mapNodes' loop over dep.Heads: each head followed by all its descendants
RECURSIVE depNodesFrom(_, _, _)
depNodesFrom(h, heads, i) ==
    IF i > Len(heads) THEN [overflow |-> FALSE, out |-> <<>>]
    ELSE LET a == getAllChildren(h, heads[i])
         IN  IF a.overflow THEN a
             ELSE LET b == depNodesFrom(h, heads, i + 1)
                  IN  [overflow |-> b.overflow, out |-> <<heads[i]>> \o a.out \o b.out]

\* graphNode{id: int64(i), Node: node}, i counted from 0
toGraphNodes(nodes) == [i \in 1..Len(nodes) |-> [id |-> i - 1, Node |-> nodes[i]]]

\* out[depNode.Path] = depNode in slice order: the last Node of a path stays
pathIndex(h, graphNodes) ==
    LET paths == {h[graphNodes[i].Node].Path : i \in DOMAIN graphNodes}
        last(p) == CHOOSE i \in DOMAIN graphNodes :
                      /\ h[graphNodes[i].Node].Path = p
                      /\ \A j \in DOMAIN graphNodes :
                            h[graphNodes[j].Node].Path = p => j <= i
    IN  [p \in paths |-> graphNodes[last(p)]]

mapNodes(h, heads) ==
    LET depNodes == depNodesFrom(h, heads, 1)
    IN  IF depNodes.overflow THEN [overflow |-> TRUE]
        ELSE [overflow |-> FALSE, map |-> pathIndex(h, toGraphNodes(depNodes.out))]

\* graphNode.DOTID
DOTID(h, graphNode) == String(h[graphNode.Node].State)

\* the line BuildDOTGraph makes for the i-th child of the node under path p
lineOf(h, nodeByPath, p, i) ==
    LET node == nodeByPath[p]
        child == h[node.Node].Children[i]
    IN  <<node, nodeByPath[h[child].Path]>>

\* The multigraph after the loops of BuildDOTGraph: SetLine adds the two ends
\* of a line as vertices (under their ID) and nothing else adds a vertex.
\* lines is the bag of (from, to) of the lines, whose own IDs are dropped.
BuildDOTGraph(h, heads) ==
    LET nodeByPath == mapNodes(h, heads)
    IN  IF nodeByPath.overflow THEN [kind |-> "stack overflow"]
        ELSE LET m == nodeByPath.map
                 entries == UNION {{<<p, i>> : i \in 1..Len(h[m[p].Node].Children)}
                                   : p \in DOMAIN m}
                 line(e) == lineOf(h, m, e[1], e[2])
                 ends == {line(e) : e \in entries}
             IN  [kind |-> "bytes",
                  vertices |-> {l[1] : l \in ends} \cup {l[2] : l \in ends},
                  lines |-> [l \in ends |->
                               Cardinality({e \in entries : line(e) = l})]]

\* the two loops of buildTree over deps, with the keys taken in parentOrder
RECURSIVE linkAll(_, _, _, _, _, _, _)
linkAll(h, byPath, byState, deps, parentOrder, pi, ci) ==
    IF pi > Len(parentOrder) THEN h
    ELSE IF ci > Len(deps[parentOrder[pi]])
         THEN linkAll(h, byPath, byState, deps, parentOrder, pi + 1, 1)
         ELSE linkAll(linkChild(h, byPath, byState, parentOrder[pi],
                                deps[parentOrder[pi]][ci]),
                      byPath, byState, deps, parentOrder, pi, ci + 1)

\* buildTree as one call: nodeOrder and parentOrder are the orders in which
\* the maps states and deps are enumerated
buildTree(states, deps, nodeOrder, parentOrder) ==
    LET nodes == makeNodes(states, nodeOrder)
        byPath == groupByPath(nodes)
        byState == groupByState(nodes)
    IN  IF byPath.panic THEN [kind |-> "panic", panic |-> byPath]
        ELSE IF byState.panic THEN [kind |-> "panic", panic |-> byState]
        ELSE LET h == linkAll(nodes, byPath.map, byState.map, deps, parentOrder, 1, 1)
                 roots == collectRoots(h, Len(nodes))
             IN  IF Len(roots) = 0
                 THEN [kind |-> "panic",
                       panic |-> [panic |-> TRUE,
                                  kind |-> "none of the modules is independent"]]
                 ELSE [kind |-> "graph", heap |-> h, Heads |-> roots]

(***************************************************************************)
(* MergeGraphs, as section 4.4 of the specification describes it: unify    *)
(* the Nodes of equal State, keep a path, recompute the heads.             *)
(***************************************************************************)
\* the Nodes of a Graph: what can be reached from its Heads
nodesOf(g) == ReachableFrom(g.heap, Range(g.Heads))

\* the States that occur in the graphs gs
statesOf(gs) == UNION {{gs[i].heap[n].State : n \in nodesOf(gs[i])} : i \in DOMAIN gs}

\* the paths the graphs claim for State s
pathsOf(gs, s) ==
    UNION {{gs[i].heap[n].Path : n \in {m \in nodesOf(gs[i]) : gs[i].heap[m].State = s}}
           : i \in DOMAIN gs} \ {NoPath}

\* the States of the children that State s has in any of the graphs
childStatesOf(gs, s) ==
    UNION {UNION {{gs[i].heap[c].State : c \in Range(gs[i].heap[n].Children)}
                  : n \in {m \in nodesOf(gs[i]) : gs[i].heap[m].State = s}}
           : i \in DOMAIN gs}

\* as mergeConflict, but two paths for one State are let through
mergeConflict_OnePathTwoStates(gs) ==
    \E s, t \in statesOf(gs) : s # t /\ pathsOf(gs, s) \cap pathsOf(gs, t) # {}

\* two inputs claim different paths for one State, or one path for two States
mergeConflict(gs) ==
    \/ \E s \in statesOf(gs) : Cardinality(pathsOf(gs, s)) > 1
    \/ \E s, t \in statesOf(gs) : s # t /\ pathsOf(gs, s) \cap pathsOf(gs, t) # {}

\* the elements of a set of numbers in increasing order
RECURSIVE sorted(_)
sorted(S) == IF S = {} THEN <<>>
             ELSE LET x == CHOOSE x \in S : \A y \in S : x <= y
                  IN  <<x>> \o sorted(S \ {x})

\* where x stands in the sequence q
indexOf(q, x) == CHOOSE i \in DOMAIN q : q[i] = x

\* as unifiedPath, but the path is kept only if every input has it
unifiedPath_Dropped(gs, s) ==
    IF \E i \in DOMAIN gs : \E n \in nodesOf(gs[i]) :
          gs[i].heap[n].State = s /\ gs[i].heap[n].Path = NoPath
    THEN NoPath
    ELSE IF pathsOf(gs, s) = {} THEN NoPath ELSE CHOOSE p \in pathsOf(gs, s) : TRUE

\* the path of the unified Node of State s: the one claimed, if any
unifiedPath(gs, s) ==
    IF pathsOf(gs, s) = {} THEN NoPath ELSE CHOOSE p \in pathsOf(gs, s) : TRUE

\* the unified Nodes, one per State, before any Parent is set
unifiedNodes(gs) ==
    LET order == sorted(statesOf(gs))
    IN  [i \in DOMAIN order |->
            [Path |-> unifiedPath(gs, order[i]),
             State |-> order[i],
             Parent |-> Nil,
             Children |-> LET cs == sorted(childStatesOf(gs, order[i]))
                          IN  [j \in DOMAIN cs |-> indexOf(order, cs[j])]]]

\* the Nodes other than n that have n among their Children
referrersOf(h, n) == {m \in DOMAIN h : m # n /\ n \in Range(h[m].Children)}

\* the Parent fields section 4.3 may leave: any one of the referrers
parentChoices(h) ==
    {par \in [DOMAIN h -> DOMAIN h \cup {Nil}] :
        \A n \in DOMAIN h :
            IF referrersOf(h, n) = {} THEN par[n] = Nil
            ELSE par[n] \in referrersOf(h, n)}

\* MergeGraphs(gs...) with the Parent fields par
MergeGraphs(gs, par) ==
    IF mergeConflict(gs) THEN [kind |-> "error", err |-> "path conflict"]
    ELSE LET u == unifiedNodes(gs)
             h == [n \in DOMAIN u |-> [u[n] EXCEPT !.Parent = par[n]]]
             heads == collectRoots(h, Len(h))
         IN  IF Len(h) > 0 /\ Len(heads) = 0
             THEN [kind |-> "error", err |-> "no heads"]
             ELSE [kind |-> "graph", heap |-> h, Heads |-> heads]

(***************************************************************************)
(* State                                                                   *)
(***************************************************************************)
VARIABLES
    scanIn,        \* what the walk of the root met: "ok", "rootErr" or "walkErr"
    modStates,     \* Scan: path -> own State of the module found there
    modDeps,       \* Scan: path -> States of its terraform_remote_state references
    pc,            \* where Scan / buildTree is
    heap,          \* the Nodes allocated so far; nodes is heap[1..nLocal]
    nodesByPath,   \* buildTree: path -> *Node
    nodesByState,  \* buildTree: State -> *Node
    pending,       \* the keys of deps the outer loop has not reached yet
    cur,           \* parentPath of the outer loop, NoPath between iterations
    idx,           \* number of modDeps[cur] already linked
    result,        \* what Scan ended with
    dot,           \* what BuildDOTGraph made of the Graph of result
    dirs,          \* generateGraph: c.dirs, each the set of module paths below it
    graphs,        \* generateGraph: the Graphs of the directories scanned so far
    merged,        \* generateGraph: what MergeGraphs returned
    input,         \* the arguments of the resolver or parser call under study
    output,        \* what that call returned
    tree,          \* Scan: the directory tree below the root
    walk,          \* Scan: where filepath.Walk is in the tree
    DefaultSkipDirs, \* the package variable DefaultSkipDirs
    scanners,      \* the Scanners NewScanner has returned
    outFile        \* the file --out names and what has been done to it

vars == <<scanIn, modStates, modDeps, pc, heap, nodesByPath, nodesByState,
          pending, cur, idx, result, dot, dirs, graphs, merged,
          input, output, tree, walk, DefaultSkipDirs, scanners, outFile>>

cmdVars == <<dirs, graphs, merged>>

auxVars == <<input, output, tree, walk, DefaultSkipDirs, scanners, outFile>>

NoResult == [kind |-> "none"]

\* var DefaultSkipDirs = []string{...}
InitialSkipDirs == <<".terraform", ".idea", ".vscode", ".external_modules">>

\* the package variable as set at start, no Scanner, the output file unused
InitGlobals ==
    /\ DefaultSkipDirs = InitialSkipDirs
    /\ scanners = <<>>
    /\ outFile = NoResult

nLocal == Cardinality(DOMAIN modStates)


\* the inner loop over modDeps[cur] is over (or no outer iteration has begun)
InnerLoopDone == IF cur = NoPath THEN TRUE ELSE idx = Len(modDeps[cur])

Init ==
    /\ scanIn \in {"ok", "rootErr", "walkErr"}
    /\ \E k \in 0..MaxPaths :
          /\ modStates \in [1..k -> States]
          /\ modDeps \in DepMaps(k, MaxDeps)
          /\ scanIn # "ok" => k = 0
    /\ pc = "scan"
    /\ heap = <<>>
    /\ nodesByPath = EmptyMap
    /\ nodesByState = EmptyMap
    /\ pending = {}
    /\ cur = NoPath
    /\ idx = 0
    /\ result = NoResult
    /\ dot = NoResult
    /\ dirs = <<>>
    /\ graphs = <<>>
    /\ merged = NoResult
    /\ input = NoResult
    /\ output = NoResult
    /\ tree = NoResult
    /\ walk = NoResult
    /\ InitGlobals

\* Scan returns (nil, err): checkIfDirExists or filepath.Walk failed
ScanFail ==
    /\ pc = "scan"
    /\ scanIn # "ok"
    /\ pc' = "returned"
    /\ result' = [kind |-> "error", err |-> scanIn]
    /\ UNCHANGED <<auxVars, scanIn, modStates, modDeps, heap, nodesByPath, nodesByState,
                   pending, cur, idx, dot, cmdVars>>

\* buildTree up to the two indexes; a duplicate key panics
BuildNodes ==
    /\ pc = "scan"
    /\ scanIn = "ok"
    /\ \E order \in Perms(DOMAIN modStates) :
          LET nodes == makeNodes(modStates, order)
              byPath == groupByPath(nodes)
              byState == groupByState(nodes)
          IN  /\ heap' = nodes
              /\ IF byPath.panic
                 THEN /\ pc' = "panicked"
                      /\ result' = [kind |-> "panic", panic |-> byPath]
                      /\ UNCHANGED <<nodesByPath, nodesByState, pending, cmdVars>>
                 ELSE IF byState.panic
                 THEN /\ pc' = "panicked"
                      /\ result' = [kind |-> "panic", panic |-> byState]
                      /\ nodesByPath' = byPath.map
                      /\ UNCHANGED <<nodesByState, pending, cmdVars>>
                 ELSE /\ pc' = "link"
                      /\ nodesByPath' = byPath.map
                      /\ nodesByState' = byState.map
                      /\ pending' = DOMAIN modDeps
                      /\ UNCHANGED result
    /\ UNCHANGED <<auxVars, scanIn, modStates, modDeps, cur, idx, dot, cmdVars>>

\* for parentPath, modDeps := range deps: the next key, in any order
RangeDeps ==
    /\ pc = "link"
    /\ pending # {}
    /\ InnerLoopDone
    /\ \E parentPath \in pending :
          /\ cur' = parentPath
          /\ pending' = pending \ {parentPath}
    /\ idx' = 0
    /\ UNCHANGED <<auxVars, scanIn, modStates, modDeps, pc, heap, nodesByPath, nodesByState,
                   result, dot, cmdVars>>

\* for _, childState := range modDeps: one iteration
LinkChild ==
    /\ pc = "link"
    /\ cur # NoPath
    /\ idx < Len(modDeps[cur])
    /\ heap' = linkChild(heap, nodesByPath, nodesByState, cur, modDeps[cur][idx + 1])
    /\ idx' = idx + 1
    /\ UNCHANGED <<auxVars, scanIn, modStates, modDeps, pc, nodesByPath, nodesByState,
                   pending, cur, result, dot, cmdVars>>

\* the roots, the panic when there is none, and Scan's return of the Graph
CollectRoots ==
    /\ pc = "link"
    /\ pending = {}
    /\ InnerLoopDone
    /\ LET roots == collectRoots(heap, nLocal)
       IN  IF Len(roots) = 0
           THEN /\ pc' = "panicked"
                /\ result' = [kind |-> "panic",
                              panic |-> [panic |-> TRUE,
                                         kind |-> "none of the modules is independent"]]
           ELSE /\ pc' = "returned"
                /\ result' = [kind |-> "graph", Heads |-> roots]
    /\ UNCHANGED <<auxVars, scanIn, modStates, modDeps, heap, nodesByPath, nodesByState,
                   pending, cur, idx, dot, cmdVars>>

\* encoding.BuildDOTGraph on the Graph that Scan returned
Encode ==
    /\ pc = "returned"
    /\ result.kind = "graph"
    /\ dot' = BuildDOTGraph(heap, result.Heads)
    /\ pc' = "encoded"
    /\ UNCHANGED <<auxVars, scanIn, modStates, modDeps, heap, nodesByPath, nodesByState,
                   pending, cur, idx, result, cmdVars>>

Next == ScanFail \/ BuildNodes \/ RangeDeps \/ LinkChild \/ CollectRoots \/ Encode

Spec == Init /\ [][Next]_vars

(***************************************************************************)
(* generateGraph: the scan of every directory, the merge, the encoding     *)
(***************************************************************************)
RECURSIVE totalSize(_)
totalSize(ds) == IF ds = <<>> THEN 0 ELSE Cardinality(Head(ds)) + totalSize(Tail(ds))

\* the lists of at most MaxDirs directories that hold the deployments 1..k
\* between them, a deployment below two of them counted twice
DirLists(k) ==
    UNION {{ds \in [1..n -> SUBSET (1..k)] :
               /\ UNION Range(ds) = 1..k
               /\ totalSize(ds) <= MaxPaths}
           : n \in 1..MaxDirs}

InitCmd ==
    /\ scanIn = "ok"
    /\ \E k \in 0..MaxPaths :
          /\ modStates \in [1..k -> States]
          /\ modDeps \in DepMaps(k, MaxCmdDeps)
          /\ dirs \in DirLists(k)
    /\ pc = "cmd"
    /\ heap = <<>>
    /\ nodesByPath = EmptyMap
    /\ nodesByState = EmptyMap
    /\ pending = {}
    /\ cur = NoPath
    /\ idx = 0
    /\ result = NoResult
    /\ dot = NoResult
    /\ graphs = <<>>
    /\ merged = NoResult
    /\ input = NoResult
    /\ output = NoResult
    /\ tree = NoResult
    /\ walk = NoResult
    /\ InitGlobals

\* graph, err := s.Scan(dir) for the next directory; a panic of buildTree ends
\* the command
ScanDir ==
    /\ pc = "cmd"
    /\ Len(graphs) < Len(dirs)
    /\ LET dir == dirs[Len(graphs) + 1]
       IN  \E nodeOrder \in Perms(dir), parentOrder \in Perms(dir) :
              LET r == buildTree([p \in dir |-> modStates[p]],
                                 [p \in dir |-> modDeps[p]], nodeOrder, parentOrder)
              IN  IF r.kind = "panic"
                  THEN /\ pc' = "panicked"
                       /\ result' = r
                       /\ UNCHANGED graphs
                  ELSE /\ graphs' = Append(graphs, [heap |-> r.heap, Heads |-> r.Heads])
                       /\ UNCHANGED <<pc, result>>
    /\ UNCHANGED <<auxVars, scanIn, modStates, modDeps, heap, nodesByPath, nodesByState,
                   pending, cur, idx, dot, dirs, merged>>

\* graph, err := terradep.MergeGraphs(graphs...)
Merge ==
    /\ pc = "cmd"
    /\ Len(graphs) = Len(dirs)
    /\ \E par \in parentChoices(unifiedNodes(graphs)) :
          merged' = MergeGraphs(graphs, par)
    /\ pc' = IF merged'.kind = "graph" THEN "merged" ELSE "returned"
    /\ result' = IF merged'.kind = "graph" THEN result
                 ELSE [kind |-> "error", err |-> "failed to merge graphs"]
    /\ UNCHANGED <<auxVars, scanIn, modStates, modDeps, heap, nodesByPath, nodesByState,
                   pending, cur, idx, dot, dirs, graphs>>

\* encoded, err := encoding.BuildDOTGraph(graph)
EncodeMerged ==
    /\ pc = "merged"
    /\ dot' = BuildDOTGraph(merged.heap, merged.Heads)
    /\ pc' = "encoded"
    /\ UNCHANGED <<auxVars, scanIn, modStates, modDeps, heap, nodesByPath, nodesByState,
                   pending, cur, idx, result, dirs, graphs, merged>>

NextCmd == ScanDir \/ Merge \/ EncodeMerged

SpecMerge == InitCmd /\ [][NextCmd]_vars

(***************************************************************************)
(* Staters: S3Stater and ByBackendStater                                   *)
(***************************************************************************)
\* cty values; a number and a bool carry their text
Str(v) == [type |-> "string", v |-> v]
Bool(v) == [type |-> "bool", v |-> v]
Num(v) == [type |-> "number", v |-> v]

S3Backend == "s3"
BackendTypes == {"s3", "gcs"}
AttrNames == {"bucket", "key", "region", "encrypt", "profile"}
AttrValues(a) ==
    CASE a = "bucket" -> {Str("b1"), Str("b2"), Num("1")}
      [] a = "key" -> {Str("k1"), Str("k2")}
      [] a = "region" -> {Str("r1"), Str("r2")}
      [] a = "encrypt" -> {Bool("true"), Bool("false")}
      [] a = "profile" -> {Str("p1")}

\* the attribute sets of a backend block or of the config of a reference:
\* any of the attributes may be missing
Configs ==
    UNION {{c \in [A -> UNION {AttrValues(a) : a \in A}] :
               \A a \in A : c[a] \in AttrValues(a)}
           : A \in SUBSET AttrNames}

\* s3StaterCfg as NewS3Stater leaves it for the options given
StaterCfgs == [region : BOOLEAN, encryption : BOOLEAN]

\* url.URL.String() as a sequence of tokens, for a URL with Scheme, Host,
\* Path (no leading slash) and RawQuery
URLString(u) ==
    <<u.Scheme, ":">>
    \o (IF u.Host # "" \/ u.Path # "" THEN <<"//">> ELSE <<>>)
    \o (IF u.Host # "" THEN <<u.Host>> ELSE <<>>)
    \o (IF u.Path # "" /\ u.Host # "" THEN <<"/">> ELSE <<>>)
    \o (IF u.Path # "" THEN <<u.Path>> ELSE <<>>)
    \o (IF u.RawQuery # <<>> THEN <<"?">> \o u.RawQuery ELSE <<>>)

\* url.URL.Query(): a fresh map parsed from RawQuery, a sequence of
\* <<key, value>>
Query(u) ==
    [k \in {u.RawQuery[i][1] : i \in DOMAIN u.RawQuery} |->
        u.RawQuery[CHOOSE i \in DOMAIN u.RawQuery : u.RawQuery[i][1] = k][2]]

\* url.Values.Set
Set(q, k, v) == [x \in DOMAIN q \cup {k} |-> IF x = k THEN v ELSE q[x]]

FormatBool(b) == IF b THEN "true" ELSE "false"

\* q is the map Query() returned; u.RawQuery is never assigned from it
urlFromConfig(s, cfg) ==
    LET u == [Scheme |-> S3Backend, Host |-> cfg.Bucket, Path |-> cfg.Key,
              RawQuery |-> <<>>]
        q0 == Query(u)
        q1 == IF s.region THEN Set(q0, "region", cfg.Region) ELSE q0
        q2 == IF s.encryption THEN Set(q1, "encrypt", FormatBool(cfg.Encrypt)) ELSE q1
    IN  [kind |-> "state", state |-> URLString(u)]

\* (*S3Stater).RemoteState: cty.Value.AsString panics on a value that is not
\* a string; attributes it does not know are passed over
S3Stater_RemoteState(s, backend, stateCfg) ==
    IF backend # S3Backend
    THEN [kind |-> "error", err |-> "supported backend type"]
    ELSE IF \E key \in DOMAIN stateCfg \cap {"bucket", "key", "region"} :
               stateCfg[key].type # "string"
    THEN [kind |-> "panic", panic |-> "not a string"]
    ELSE urlFromConfig(s,
            [Bucket |-> IF "bucket" \in DOMAIN stateCfg THEN stateCfg["bucket"].v ELSE "",
             Key |-> IF "key" \in DOMAIN stateCfg THEN stateCfg["key"].v ELSE "",
             Region |-> IF "region" \in DOMAIN stateCfg THEN stateCfg["region"].v ELSE "",
             Encrypt |-> IF "encrypt" \in DOMAIN stateCfg
                         THEN stateCfg["encrypt"] = Bool("true") ELSE FALSE])

\* gohcl's conversion of an attribute value to a string field
toStringField(value) == value.v

\* (*S3Stater).BackendState: gohcl.DecodeBody into s3BackendConfig wants
\* bucket, key, region and encrypt and no attribute outside the struct
S3Stater_BackendState(s, backend, body) ==
    IF backend # S3Backend
    THEN [kind |-> "error", err |-> "supported backend type"]
    ELSE IF \/ {"bucket", "key", "region", "encrypt"} \ DOMAIN body # {}
            \/ DOMAIN body \ {"bucket", "key", "region", "encrypt", "remain"} # {}
            \/ body["encrypt"].type # "bool"
    THEN [kind |-> "error", err |-> "reading S3Backend state"]
    ELSE urlFromConfig(s,
            [Bucket |-> toStringField(body["bucket"]),
             Key |-> toStringField(body["key"]),
             Region |-> toStringField(body["region"]),
             Encrypt |-> body["encrypt"].v = "true"])

\* the maps NewByTypeStater may be given: an S3Stater under some of the names
Registries == UNION {[B -> StaterCfgs] : B \in SUBSET BackendTypes}

\* as ByBackendStater_RemoteState, but a name that is not registered falls
\* back to some registered resolver
ByBackendStater_RemoteState_Fallback(staters, backend, stateCfg) ==
    IF backend \notin DOMAIN staters
    THEN IF DOMAIN staters = {}
         THEN [kind |-> "error", err |-> "supported backends"]
         ELSE LET b == CHOOSE b \in DOMAIN staters : TRUE
              IN  S3Stater_RemoteState(staters[b], b, stateCfg)
    ELSE S3Stater_RemoteState(staters[backend], backend, stateCfg)

\* (*ByBackendStater).RemoteState
ByBackendStater_RemoteState(staters, backend, stateCfg) ==
    IF backend \notin DOMAIN staters
    THEN [kind |-> "error", err |-> "supported backends"]
    ELSE S3Stater_RemoteState(staters[backend], backend, stateCfg)

\* (*ByBackendStater).BackendState
ByBackendStater_BackendState(staters, backend, body) ==
    IF backend \notin DOMAIN staters
    THEN [kind |-> "error", err |-> "supported backends"]
    ELSE S3Stater_BackendState(staters[backend], backend, body)

\* a registry, a backend type and an attribute set; both methods are still
\* to be called
InitStater ==
    /\ input \in [staters : Registries, backend : BackendTypes, cfg : Configs]
    /\ output = [remote |-> NoResult, backend |-> NoResult]
    /\ pc = "stater"
    /\ scanIn = "ok"
    /\ modStates = EmptyMap
    /\ modDeps = EmptyMap
    /\ heap = <<>>
    /\ nodesByPath = EmptyMap
    /\ nodesByState = EmptyMap
    /\ pending = {}
    /\ cur = NoPath
    /\ idx = 0
    /\ result = NoResult
    /\ dot = NoResult
    /\ dirs = <<>>
    /\ graphs = <<>>
    /\ merged = NoResult
    /\ tree = NoResult
    /\ walk = NoResult
    /\ InitGlobals

staterFrame == <<scanIn, modStates, modDeps, pc, heap, nodesByPath, nodesByState,
                 pending, cur, idx, result, dot, cmdVars, input, tree, walk,
                 DefaultSkipDirs, scanners, outFile>>

\* stater.RemoteState(backend, cfg)
CallRemoteState ==
    /\ pc = "stater"
    /\ output.remote = NoResult
    /\ output' = [output EXCEPT !.remote =
                     ByBackendStater_RemoteState(input.staters, input.backend, input.cfg)]
    /\ UNCHANGED staterFrame

\* stater.BackendState(backend, body)
CallBackendState ==
    /\ pc = "stater"
    /\ output.backend = NoResult
    /\ output' = [output EXCEPT !.backend =
                     ByBackendStater_BackendState(input.staters, input.backend, input.cfg)]
    /\ UNCHANGED staterFrame

NextStater == CallRemoteState \/ CallBackendState

SpecStater == InitStater /\ [][NextStater]_vars

(***************************************************************************)
(* Scan: findDependencies and findState of one module                      *)
(***************************************************************************)
MaxBlocks == 2
MaxFiles == 2

\* the stater generateGraph hands to NewScanner
mainStaters == [b \in {S3Backend} |-> [region |-> TRUE, encryption |-> TRUE]]

TRS == "terraform_remote_state"
Object(c) == [kind |-> "object", value |-> c]
goodBody == [b \in {"bucket", "key", "region", "encrypt"} |->
                CASE b = "bucket" -> Str("b1")
                  [] b = "key" -> Str("k1")
                  [] b = "region" -> Str("r1")
                  [] b = "encrypt" -> Bool("true")]

\* what a data block may hold: the backend attribute ("none" when it is
\* missing) and the config attribute
BlockBodies ==
    {[backend |-> S3Backend, config |-> Object(goodBody)],
     [backend |-> S3Backend, config |-> Object([goodBody EXCEPT !["key"] = Str("k2")])],
     [backend |-> S3Backend, config |-> Object([goodBody EXCEPT !["bucket"] = Num("1")])],
     [backend |-> "gcs", config |-> Object(goodBody)],
     [backend |-> S3Backend, config |-> [kind |-> "missing"]],
     [backend |-> S3Backend, config |-> [kind |-> "notObject"]],
     [backend |-> "none", config |-> Object(goodBody)]}

\* the data blocks of the files of a module
DataBlocks ==
    [file : 1..MaxFiles, type : {TRS}, name : {"a", "b", ""}, body : BlockBodies]
    \cup [file : 1..MaxFiles, type : {"aws_ami"}, name : {"a"},
          body : {[backend |-> "none", config |-> [kind |-> "missing"]]}]

BlockLists(n) == UNION {[1..k -> DataBlocks] : k \in 0..n}

\* parseRemoteState: rs.Config["config"] is nil when the block has no config
parseRemoteState(block) ==
    IF block.body.backend = "none"
    THEN [kind |-> "error", err |-> "decoding block body to remoteState"]
    ELSE IF block.body.config.kind = "missing"
    THEN [kind |-> "panic", panic |-> "nil pointer dereference"]
    ELSE IF block.body.config.kind # "object"
    THEN [kind |-> "error", err |-> "terraform remote state config must be an object"]
    ELSE [kind |-> "ok", backend |-> block.body.backend, cfg |-> block.body.config.value]

\* the loop of parseTerraformRemoteStates over content.Blocks
RECURSIVE parseBlocks(_, _, _)
parseBlocks(staters, blocks, remoteStates) ==
    IF blocks = <<>> THEN [kind |-> "ok", states |-> remoteStates]
    ELSE LET block == Head(blocks)
         IN  IF block.type # TRS THEN parseBlocks(staters, Tail(blocks), remoteStates)
             ELSE IF block.name = ""
             THEN [kind |-> "error", err |-> "block does not have the name"]
             ELSE LET p == parseRemoteState(block)
                  IN  IF p.kind # "ok" THEN p
                      ELSE LET st == ByBackendStater_RemoteState(staters, p.backend, p.cfg)
                           IN  IF st.kind # "state" THEN st
                               ELSE parseBlocks(staters, Tail(blocks),
                                                Append(remoteStates, st.state))

\* as parseTerraformRemoteStates, but the number of States is not compared
\* with the number of resources
parseTerraformRemoteStates_Uncounted(staters, blocks, resources) ==
    parseBlocks(staters, blocks, <<>>)

\* parseTerraformRemoteStates(file, resources), blocks being the data blocks
\* of the file
parseTerraformRemoteStates(staters, blocks, resources) ==
    LET r == parseBlocks(staters, blocks, <<>>)
    IN  IF r.kind # "ok" THEN r
        ELSE IF Len(r.states) # Cardinality(resources)
        THEN [kind |-> "error", err |-> "expected to parse"]
        ELSE r

\* the data blocks of file f, in the order of the file
blocksOfFile(blocks, f) == SelectSeq(blocks, LAMBDA b : b.file = f)

\* module.DataResources as tfconfig.LoadModule fills it: one entry per type
\* and name, positioned at the last block of that type and name, files taken
\* in the order of their names
DataResources(blocks) ==
    {[type |-> blocks[i].type, name |-> blocks[i].name, file |-> blocks[i].file]
       : i \in {j \in DOMAIN blocks :
                   \A k \in DOMAIN blocks :
                       (blocks[k].type = blocks[j].type /\ blocks[k].name = blocks[j].name) =>
                           \/ blocks[k].file < blocks[j].file
                           \/ blocks[k].file = blocks[j].file /\ k <= j}}

\* groupResByFile of the terraform_remote_state resources
groupResByFile(res) ==
    [f \in {r.file : r \in res} |-> {r \in res : r.file = f}]

\* the loop of findDependencies over the files in the order files
RECURSIVE findDependenciesFrom(_, _, _, _, _)
findDependenciesFrom(staters, blocks, byFile, files, out) ==
    IF files = <<>> THEN [kind |-> "ok", states |-> out]
    ELSE LET r == parseTerraformRemoteStates(staters, blocksOfFile(blocks, Head(files)),
                                             byFile[Head(files)])
         IN  IF r.kind # "ok" THEN r
             ELSE findDependenciesFrom(staters, blocks, byFile, Tail(files),
                                       out \o r.states)

\* the orders in which range may enumerate the files that hold resources
fileOrders(blocks) ==
    Perms(DOMAIN groupResByFile({r \in DataResources(blocks) : r.type = TRS}))

\* findDependencies(module), the map of files enumerated in the order files
findDependencies(staters, blocks, files) ==
    findDependenciesFrom(staters, blocks,
                         groupResByFile({r \in DataResources(blocks) : r.type = TRS}),
                         files, <<>>)

\* findState(module): FindTerraformBlock returns a nil block and a nil error
\* for a module without a terraform block; terraformBlock wants
\* required_version and one backend block
findState(staters, tf) ==
    IF tf.kind = "none"
    THEN [kind |-> "panic", panic |-> "nil pointer dereference"]
    ELSE IF ~tf.version \/ tf.backend.type = "none"
    THEN [kind |-> "error", err |-> "decoding terraform block to object"]
    ELSE ByBackendStater_BackendState(staters, tf.backend.type, tf.backend.body)

\* the data blocks of one module; findDependencies is still to be called
InitDeps ==
    /\ input \in [blocks : BlockLists(MaxBlocks)]
    /\ output = NoResult
    /\ pc = "deps"
    /\ scanIn = "ok"
    /\ modStates = EmptyMap
    /\ modDeps = EmptyMap
    /\ heap = <<>>
    /\ nodesByPath = EmptyMap
    /\ nodesByState = EmptyMap
    /\ pending = {}
    /\ cur = NoPath
    /\ idx = 0
    /\ result = NoResult
    /\ dot = NoResult
    /\ dirs = <<>>
    /\ graphs = <<>>
    /\ merged = NoResult
    /\ tree = NoResult
    /\ walk = NoResult
    /\ InitGlobals

\* dependencies, err := s.findDependencies(module)
CallFindDependencies ==
    /\ pc = "deps"
    /\ output = NoResult
    /\ \E files \in fileOrders(input.blocks) :
          output' = findDependencies(mainStaters, input.blocks, files)
    /\ UNCHANGED staterFrame

NextDeps == CallFindDependencies

SpecDeps == InitDeps /\ [][NextDeps]_vars

(***************************************************************************)
(* Scan: checkIfDirExists, filepath.Walk and its callback                  *)
(***************************************************************************)
MaxTreeDirs == 3

\* what a directory holds when tfconfig.IsModuleDir is false
NoModule == [kind |-> "plain"]

goodTerraform(key) ==
    [kind |-> "block", version |-> TRUE,
     backend |-> [type |-> S3Backend, body |-> [goodBody EXCEPT !["key"] = Str(key)]]]
remoteStateBlock(body) == [file |-> 1, type |-> TRS, name |-> "a", body |-> body]

\* the modules a directory may hold: two that resolve (the second refers to
\* the first), one that tfconfig.LoadModule rejects, one whose reference names
\* a backend without resolver, one whose reference has no config, one whose
\* terraform block has no backend, one without terraform block
Modules ==
    {[loadErr |-> FALSE, blocks |-> <<>>, tf |-> goodTerraform("k1")],
     [loadErr |-> FALSE,
      blocks |-> <<remoteStateBlock([backend |-> S3Backend, config |-> Object(goodBody)])>>,
      tf |-> goodTerraform("k2")],
     [loadErr |-> TRUE, blocks |-> <<>>, tf |-> goodTerraform("k2")],
     [loadErr |-> FALSE,
      blocks |-> <<remoteStateBlock([backend |-> "gcs", config |-> Object(goodBody)])>>,
      tf |-> goodTerraform("k2")],
     [loadErr |-> FALSE,
      blocks |-> <<remoteStateBlock([backend |-> S3Backend, config |-> [kind |-> "missing"]])>>,
      tf |-> goodTerraform("k2")],
     [loadErr |-> FALSE, blocks |-> <<>>,
      tf |-> [kind |-> "block", version |-> TRUE, backend |-> [type |-> "none"]]],
     [loadErr |-> FALSE, blocks |-> <<>>, tf |-> [kind |-> "none"]]}

\* the directory trees of n directories below (and with) an existing root:
\* directory 1 is the root, parent[d] the directory that holds d, and the
\* numbers follow the order of the names among the entries of one directory
Trees(n) ==
    {[root |-> "dir", parent |-> par, excluded |-> ex, module |-> mod] :
        par \in {p \in [1..n -> 0..n] : \A d \in 1..n : p[d] < d /\ (p[d] = 0 <=> d = 1)},
        ex \in [1..n -> BOOLEAN],
        mod \in [1..n -> Modules \cup {NoModule}]}

\* what the root argument may be when it is no directory
NoTree(kind) == [root |-> kind, parent |-> <<>>, excluded |-> <<>>, module |-> <<>>]

\* as checkIfDirExists, but a root that is no directory is let through
checkIfDirExists_AnyFile(t) ==
    CASE t.root = "missing" -> [kind |-> "error", err |-> "path does not exist"]
      [] t.root = "statErr" -> [kind |-> "error", err |-> "stat"]
      [] OTHER -> [kind |-> "nil"]

\* checkIfDirExists(root)
checkIfDirExists(t) ==
    CASE t.root = "missing" -> [kind |-> "error", err |-> "path does not exist"]
      [] t.root = "statErr" -> [kind |-> "error", err |-> "stat"]
      [] t.root = "file" -> [kind |-> "error", err |-> "it is not directory"]
      [] OTHER -> [kind |-> "nil"]

\* tfconfig.IsModuleDir(path)
IsModuleDir(t, d) == t.module[d] # NoModule

\* the directories in d in the order filepath.Walk reads them
readDirNames(t, d) == sorted({c \in DOMAIN t.parent : t.parent[c] = d})

\* as walkFn, but a module is recorded and its subdirectories are walked too
walkFn_Submodules(t, d, files) ==
    IF t.excluded[d] THEN [ret |-> "SkipDir", record |-> FALSE]
    ELSE IF ~IsModuleDir(t, d) THEN [ret |-> "nil", record |-> FALSE]
    ELSE LET module == t.module[d]
             dependencies == findDependencies(mainStaters, module.blocks, files)
             tfState == findState(mainStaters, module.tf)
         IN  IF module.loadErr
             THEN [ret |-> "error", err |-> "loading module", record |-> FALSE]
             ELSE IF dependencies.kind = "panic"
             THEN [ret |-> "panic", panic |-> dependencies.panic, record |-> FALSE]
             ELSE IF dependencies.kind = "error"
             THEN [ret |-> "error", err |-> "finding dependencies in module",
                   record |-> FALSE]
             ELSE IF tfState.kind = "panic"
             THEN [ret |-> "panic", panic |-> tfState.panic, record |-> FALSE]
             ELSE IF tfState.kind = "error"
             THEN [ret |-> "error", err |-> "find state in module", record |-> FALSE]
             ELSE [ret |-> "nil", record |-> TRUE,
                   dependencies |-> dependencies.states, tfState |-> tfState.state]

\* the callback Scan hands to filepath.Walk, called for directory d; files is
\* the order in which findDependencies enumerates the files of the module
walkFn(t, d, files) ==
    IF t.excluded[d] THEN [ret |-> "SkipDir", record |-> FALSE]
    ELSE IF ~IsModuleDir(t, d) THEN [ret |-> "nil", record |-> FALSE]
    ELSE LET module == t.module[d]
             dependencies == findDependencies(mainStaters, module.blocks, files)
             tfState == findState(mainStaters, module.tf)
         IN  IF module.loadErr
             THEN [ret |-> "error", err |-> "loading module", record |-> FALSE]
             ELSE IF dependencies.kind = "panic"
             THEN [ret |-> "panic", panic |-> dependencies.panic, record |-> FALSE]
             ELSE IF dependencies.kind = "error"
             THEN [ret |-> "error", err |-> "finding dependencies in module",
                   record |-> FALSE]
             ELSE IF tfState.kind = "panic"
             THEN [ret |-> "panic", panic |-> tfState.panic, record |-> FALSE]
             ELSE IF tfState.kind = "error"
             THEN [ret |-> "error", err |-> "find state in module", record |-> FALSE]
             ELSE [ret |-> "SkipDir", record |-> TRUE,
                   dependencies |-> dependencies.states, tfState |-> tfState.state]

\* a root argument and, when it is a directory, the tree below it
InitWalk ==
    /\ tree \in UNION {Trees(n) : n \in 1..MaxTreeDirs}
                \cup {NoTree(k) : k \in {"missing", "statErr", "file"}}
    /\ walk = [todo |-> <<>>, visited |-> <<>>]
    /\ pc = "scanRoot"
    /\ scanIn = "ok"
    /\ modStates = EmptyMap
    /\ modDeps = EmptyMap
    /\ heap = <<>>
    /\ nodesByPath = EmptyMap
    /\ nodesByState = EmptyMap
    /\ pending = {}
    /\ cur = NoPath
    /\ idx = 0
    /\ result = NoResult
    /\ dot = NoResult
    /\ dirs = <<>>
    /\ graphs = <<>>
    /\ merged = NoResult
    /\ input = NoResult
    /\ output = NoResult
    /\ InitGlobals

walkFrame == <<scanIn, heap, nodesByPath, nodesByState, pending, cur, idx, dot,
               cmdVars, input, output, tree, DefaultSkipDirs, scanners, outFile>>

\* if err := checkIfDirExists(root); err != nil { return nil, err }
CheckRoot ==
    /\ pc = "scanRoot"
    /\ LET err == checkIfDirExists(tree)
       IN  IF err.kind = "error"
           THEN /\ pc' = "returned"
                /\ result' = err
                /\ UNCHANGED walk
           ELSE /\ pc' = "walk"
                /\ walk' = [walk EXCEPT !.todo = IF tree.root = "dir" THEN <<1>> ELSE <<>>]
                /\ UNCHANGED result
    /\ UNCHANGED <<modStates, modDeps>>
    /\ UNCHANGED walkFrame

\* filepath.Walk calls the callback for the next directory and goes on as the
\* value it returns says
WalkDir ==
    /\ pc = "walk"
    /\ walk.todo # <<>>
    /\ LET d == Head(walk.todo)
       IN  \E files \in (IF IsModuleDir(tree, d)
                         THEN fileOrders(tree.module[d].blocks) ELSE {<<>>}) :
              LET r == walkFn(tree, d, files)
              IN  /\ walk' = [todo |-> IF r.ret = "nil"
                                       THEN readDirNames(tree, d) \o Tail(walk.todo)
                                       ELSE Tail(walk.todo),
                              visited |-> Append(walk.visited, d)]
                  /\ IF r.record
                     THEN /\ modDeps' = (d :> r.dependencies) @@ modDeps
                          /\ modStates' = (d :> r.tfState) @@ modStates
                     ELSE UNCHANGED <<modStates, modDeps>>
                  /\ pc' = CASE r.ret = "error" -> "returned"
                             [] r.ret = "panic" -> "panicked"
                             [] OTHER -> "walk"
                  /\ result' = CASE r.ret = "error" -> [kind |-> "error", err |-> r.err]
                                 [] r.ret = "panic" ->
                                       [kind |-> "panic",
                                        panic |-> [kind |-> r.panic, key |-> d]]
                                 [] OTHER -> result
    /\ UNCHANGED walkFrame

\* return buildTree(modStates, modDeps), nil
WalkDone ==
    /\ pc = "walk"
    /\ walk.todo = <<>>
    /\ \E nodeOrder \in Perms(DOMAIN modStates), parentOrder \in Perms(DOMAIN modDeps) :
          LET r == buildTree(modStates, modDeps, nodeOrder, parentOrder)
          IN  IF r.kind = "panic"
              THEN /\ pc' = "panicked"
                   /\ result' = r
              ELSE /\ pc' = "returned"
                   /\ result' = r
    /\ UNCHANGED <<modStates, modDeps, walk>>
    /\ UNCHANGED walkFrame

NextWalk == CheckRoot \/ WalkDir \/ WalkDone

SpecWalk == InitWalk /\ [][NextWalk]_vars

(***************************************************************************)
(* NewScanner and its options                                              *)
(***************************************************************************)
MaxOpts == 2
MaxScanners == 2

\* the arguments given to SetSkipDirs and AddSkipDirs, and the directory
\* names a Scan may meet
OptDirs == {<<>>, <<"a">>, <<"b">>, <<".idea", "a">>}
DirNames == {".terraform", ".idea", ".vscode", ".external_modules", "a", "b"}

\* the ScannerOpt values and the lists of them NewScanner may be given
ScannerOpts == [kind : {"SetSkipDirs", "AddSkipDirs"}, dirs : OptDirs]
OptLists(n) == UNION {[1..k -> ScannerOpts] : k \in 0..n}

\* the function SetSkipDirs(dirs) returns
SetSkipDirs(cfg, ds) == [cfg EXCEPT !.globs = ds]

\* as AddSkipDirs, but the directories are appended to globs
AddSkipDirs_ToGlobs(cfg, ds) == [cfg EXCEPT !.globs = @ \o ds]

\* the function AddSkipDirs(dirs) returns
AddSkipDirs(cfg, ds) == [cfg EXCEPT !.extraGlobs = @ \o ds]

\* for _, opt := range opts { opt(cfg) }
RECURSIVE applyOpts(_, _)
applyOpts(cfg, opts) ==
    IF opts = <<>> THEN cfg
    ELSE applyOpts(IF Head(opts).kind = "SetSkipDirs"
                   THEN SetSkipDirs(cfg, Head(opts).dirs)
                   ELSE AddSkipDirs(cfg, Head(opts).dirs),
                   Tail(opts))

\* scannerCfg.mergeGlobs: the keys of the map it builds
mergeGlobs(cfg) == Range(cfg.globs) \cup Range(cfg.extraGlobs)

\* NewScanner(stater, opts...), default being DefaultSkipDirs at the call
NewScanner(default, opts) ==
    [skipDirs |-> mergeGlobs(applyOpts([globs |-> default, extraGlobs |-> <<>>], opts))]

\* no Scanner yet
InitScanner ==
    /\ pc = "scanner"
    /\ scanIn = "ok"
    /\ modStates = EmptyMap
    /\ modDeps = EmptyMap
    /\ heap = <<>>
    /\ nodesByPath = EmptyMap
    /\ nodesByState = EmptyMap
    /\ pending = {}
    /\ cur = NoPath
    /\ idx = 0
    /\ result = NoResult
    /\ dot = NoResult
    /\ dirs = <<>>
    /\ graphs = <<>>
    /\ merged = NoResult
    /\ input = NoResult
    /\ output = NoResult
    /\ tree = NoResult
    /\ walk = NoResult
    /\ InitGlobals

scannerFrame == <<scanIn, modStates, modDeps, pc, heap, nodesByPath, nodesByState,
                  pending, cur, idx, result, dot, cmdVars, input, tree, walk, outFile>>

\* s := NewScanner(stater, opts...)
CallNewScanner ==
    /\ pc = "scanner"
    /\ Len(scanners) < MaxScanners
    /\ \E opts \in OptLists(MaxOpts) :
          scanners' = Append(scanners,
                             [opts |-> opts,
                              skipDirs |-> NewScanner(DefaultSkipDirs, opts).skipDirs])
    /\ UNCHANGED <<DefaultSkipDirs, output>>
    /\ UNCHANGED scannerFrame

\* s.Scan(root): the callback looks the name of a directory up in s.skipDirs
CallScan ==
    /\ pc = "scanner"
    /\ \E i \in DOMAIN scanners : \E name \in DirNames :
          output' = [scanner |-> i, name |-> name,
                     skipped |-> name \in scanners[i].skipDirs]
    /\ UNCHANGED <<DefaultSkipDirs, scanners>>
    /\ UNCHANGED scannerFrame

NextScanner == CallNewScanner \/ CallScan

SpecScanner == InitScanner /\ [][NextScanner]_vars

(***************************************************************************)
(* The graph command: flags, the output, the steps of generateGraph        *)
(***************************************************************************)
MaxCliPaths == 2

\* what os.Stat finds at the path of --out; "" is the flag left unset
OutFiles == {"", "absent", "exists", "statErr"}

\* --dry-run, --out and --force
Flags == [dryRun : BOOLEAN, outFile : OutFiles, force : BOOLEAN]

OldContent == [kind |-> "old"]
NoContent == [kind |-> "absent"]
Empty == [kind |-> "empty"]

\* the file at the path of --out before the command runs, no io.Writer yet
\* and nothing written to os.Stderr
FileBefore(c) ==
    [writer |-> "none",
     content |-> IF c.outFile = "exists" THEN OldContent ELSE NoContent,
     ops |-> {},
     stderr |-> <<>>]

\* as buildOutput, but the existing file is opened whether force is set or not
buildOutput_ForceIgnored(c, f, openErr) ==
    IF c.dryRun THEN [kind |-> "ok", file |-> [f EXCEPT !.writer = "io.Discard"]]
    ELSE IF c.outFile = "" THEN [kind |-> "ok", file |-> [f EXCEPT !.writer = "os.Stderr"]]
    ELSE IF c.outFile = "absent"
    THEN IF openErr THEN [kind |-> "error", err |-> "creating output file", file |-> f]
         ELSE [kind |-> "ok",
               file |-> [f EXCEPT !.writer = "file", !.content = Empty,
                                  !.ops = @ \cup {"create"}]]
    ELSE IF c.outFile = "statErr"
    THEN [kind |-> "error", err |-> "stating out file", file |-> f]
    ELSE IF openErr THEN [kind |-> "error", err |-> "overwriting output file", file |-> f]
    ELSE [kind |-> "ok",
          file |-> [f EXCEPT !.writer = "file", !.content = Empty,
                             !.ops = @ \cup {"truncate"}]]

\* buildOutput(log, c): the io.Writer and the file afterwards, or the error;
\* openErr is whether os.Create or os.OpenFile fails
buildOutput(c, f, openErr) ==
    IF c.dryRun THEN [kind |-> "ok", file |-> [f EXCEPT !.writer = "io.Discard"]]
    ELSE IF c.outFile = "" THEN [kind |-> "ok", file |-> [f EXCEPT !.writer = "os.Stderr"]]
    ELSE IF c.outFile = "absent"
    THEN IF openErr THEN [kind |-> "error", err |-> "creating output file", file |-> f]
         ELSE [kind |-> "ok",
               file |-> [f EXCEPT !.writer = "file", !.content = Empty,
                                  !.ops = @ \cup {"create"}]]
    ELSE IF c.outFile = "statErr"
    THEN [kind |-> "error", err |-> "stating out file", file |-> f]
    ELSE IF ~c.force
    THEN [kind |-> "error", err |-> "output file already exist and force is disabled",
          file |-> f]
    ELSE IF openErr THEN [kind |-> "error", err |-> "overwriting output file", file |-> f]
    ELSE [kind |-> "ok",
          file |-> [f EXCEPT !.writer = "file", !.content = Empty,
                             !.ops = @ \cup {"truncate"}]]

\* out.Write(encoded), encoded being nil after an encoding error
write(f, encoded) ==
    CASE f.writer = "io.Discard" -> f
      [] f.writer = "os.Stderr" ->
            [f EXCEPT !.stderr = IF encoded.kind = "bytes" THEN Append(@, encoded) ELSE @]
      [] f.writer = "file" ->
            [f EXCEPT !.ops = @ \cup {"write"},
                      !.content = IF encoded.kind = "bytes" THEN encoded ELSE @]

\* the command line and the directories: --dir may be missing altogether
InitCli ==
    /\ scanIn = "ok"
    /\ \E k \in 0..MaxCliPaths :
          /\ modStates \in [1..k -> States]
          /\ modDeps \in DepMaps(k, MaxCmdDeps)
          /\ dirs \in DirLists(k) \cup (IF k = 0 THEN {<<>>} ELSE {})
    /\ input \in Flags
    /\ outFile = FileBefore(input)
    /\ pc = "cli"
    /\ heap = <<>>
    /\ nodesByPath = EmptyMap
    /\ nodesByState = EmptyMap
    /\ pending = {}
    /\ cur = NoPath
    /\ idx = 0
    /\ result = NoResult
    /\ dot = NoResult
    /\ graphs = <<>>
    /\ merged = NoResult
    /\ output = NoResult
    /\ tree = NoResult
    /\ walk = NoResult
    /\ DefaultSkipDirs = InitialSkipDirs
    /\ scanners = <<>>

cliFrame == <<scanIn, modStates, modDeps, heap, nodesByPath, nodesByState, pending,
              cur, idx, dirs, input, output, tree, walk, DefaultSkipDirs, scanners>>

\* generateGraph up to the Scanner: buildLogger, the check of --dir,
\* buildOutput; logErr is whether buildLogger fails
StartCommand ==
    /\ pc = "cli"
    /\ \E logErr \in BOOLEAN, openErr \in BOOLEAN :
          LET out == buildOutput(input, outFile, openErr)
              err == IF logErr THEN "failed to build logger"
                     ELSE IF Len(dirs) = 0 THEN "no directories to scan"
                     ELSE IF out.kind = "error" THEN "building output"
                     ELSE "nil"
          IN  /\ outFile' = IF err \in {"building output", "nil"} THEN out.file ELSE outFile
              /\ pc' = IF err = "nil" THEN "cmd" ELSE "returned"
              /\ result' = IF err = "nil" THEN result
                           ELSE [kind |-> "error", err |-> err]
    /\ UNCHANGED <<dot, graphs, merged>>
    /\ UNCHANGED cliFrame

\* graph, err := s.Scan(dir) returns an error: the directory is missing or
\* the walk below it fails
ScanDirFails ==
    /\ pc = "cmd"
    /\ Len(graphs) < Len(dirs)
    /\ pc' = "returned"
    /\ result' = [kind |-> "error", err |-> "failed to scan path"]
    /\ UNCHANGED <<dot, graphs, merged, outFile>>
    /\ UNCHANGED cliFrame

\* encoding.BuildDOTGraph(graph) returns the error of dot.MarshalMulti
EncodeFails ==
    /\ pc = "merged"
    /\ dot' = [kind |-> "error", err |-> "marshaling multigraph"]
    /\ pc' = "encoded"
    /\ UNCHANGED <<result, graphs, merged, outFile>>
    /\ UNCHANGED cliFrame

\* the rest of generateGraph: the error of the encoding is logged,
\* out.Write(encoded), return nil; a stack overflow has ended the process
WriteOutput ==
    /\ pc = "encoded"
    /\ dot.kind # "stack overflow"
    /\ outFile' = write(outFile, dot)
    /\ result' = [kind |-> "nil"]
    /\ pc' = "returned"
    /\ UNCHANGED <<dot, graphs, merged>>
    /\ UNCHANGED cliFrame

NextCli ==
    \/ StartCommand
    \/ ScanDir
    \/ ScanDirFails
    \/ Merge
    \/ EncodeMerged
    \/ EncodeFails
    \/ WriteOutput

SpecCli == InitCli /\ [][NextCli]_vars

(***************************************************************************)
(* Properties                                                              *)
(***************************************************************************)
Returned == pc \in {"returned", "encoded"} /\ result.kind = "graph"
Finished == pc \in {"returned", "encoded", "panicked"}
GraphNodes == ReachableFrom(heap, Range(result.Heads))
Externals == {n \in DOMAIN heap : heap[n].Path = NoPath}
DuplicateState ==
    \E p, q \in DOMAIN modStates : p # q /\ modStates[p] = modStates[q]
\* the deployments that declare a reference to State s
Referrers(s) == {q \in DOMAIN modDeps : s \in Range(modDeps[q])}
PanicKind == IF result.kind = "panic" THEN result.panic.kind ELSE "none"

\* C1: when two records with different paths have equal own State, buildTree
\* ends in the duplicate-state failure for one of the shared States and no
\* Graph is returned, in every order of enumeration.
C1_DuplicateStateFails ==
    (scanIn = "ok" /\ DuplicateState /\ pc # "scan") =>
        /\ pc = "panicked"
        /\ PanicKind = "duplicate state"
        /\ Cardinality({p \in DOMAIN modStates : modStates[p] = result.panic.key}) > 1
        /\ heap[result.panic.first].State = heap[result.panic.second].State
        /\ heap[result.panic.first].Path # heap[result.panic.second].Path

\* C1 witness: the failure, met with the records enumerated against path order
C1_Witness ==
    /\ PanicKind = "duplicate state"
    /\ heap[result.panic.first].Path > heap[result.panic.second].Path
    /\ Len(heap) = MaxPaths

\* C2: in a returned Graph no two distinct Nodes carry the same State.
C2_OneNodePerState ==
    Returned =>
        \A m, n \in GraphNodes : heap[m].State = heap[n].State => m = n

\* C3: a scanned deployment's Node is a head iff no other deployment refers to
\* its State, and Heads holds no Node twice.
C3_HeadIffNoOtherReferrer ==
    Returned =>
        /\ \A n \in 1..nLocal :
              n \in Range(result.Heads) <=>
                  Referrers(heap[n].State) \ {heap[n].Path} = {}
        /\ \A i, j \in DOMAIN result.Heads :
              result.Heads[i] = result.Heads[j] => i = j

\* C4: the zero-heads failure is reported exactly for a non-empty input whose
\* Nodes all have a Parent, and an empty input yields a Graph without heads.
C4_ZeroHeadsOnlyWhenNonEmpty ==
    (scanIn = "ok" /\ Finished) =>
        /\ PanicKind = "none of the modules is independent"
              <=> (nLocal > 0 /\ \A n \in 1..nLocal : heap[n].Parent # Nil)
        /\ nLocal = 0 => (result.kind = "graph" /\ result.Heads = <<>>)

\* C5: Scan never panics: it ends with a Graph or with an error value.
C5_ScanReturnsGraphOrError ==
    /\ pc # "panicked"
    /\ result.kind # "panic"
    /\ pc \in {"returned", "encoded"} => result.kind \in {"graph", "error"}

\* C6: whether buildTree fails and which deployments are heads is decided by
\* the records alone, not by the order the maps were enumerated in.
C6_HeadsIndependentOfOrder ==
    (scanIn = "ok" /\ Finished) =>
        LET heads == {p \in DOMAIN modStates : Referrers(modStates[p]) = {}}
        IN  /\ result.kind = "panic" <=> (DuplicateState \/ heads = {})
            /\ result.kind = "graph" =>
                  {heap[n].Path : n \in Range(result.Heads)} = heads

\* C6 witness: a Graph whose heads were found against path order and in which
\* a Node with two referrers kept the first-numbered one as Parent although
\* the other one exists
C6_Witness ==
    /\ Returned
    /\ Len(result.Heads) > 1
    /\ heap[result.Heads[1]].Path > heap[result.Heads[2]].Path
    /\ \E n \in 1..nLocal :
          /\ Cardinality(Referrers(heap[n].State)) > 1
          /\ \E q \in Referrers(heap[n].State) : q > heap[heap[n].Parent].Path

\* C7: the vertices of the encoding are the Nodes reachable from Heads, one
\* vertex each.
C7_OneVertexPerReachableNode ==
    (pc = "encoded" /\ dot.kind = "bytes") =>
        /\ \A n \in GraphNodes : Cardinality({v \in dot.vertices : v.Node = n}) = 1
        /\ \A v \in dot.vertices : v.Node \in GraphNodes

\* C8: two distinct external Nodes with different States are two vertices.
C8_ExternalsNotCollapsed ==
    (pc = "encoded" /\ dot.kind = "bytes") =>
        \A m, n \in GraphNodes \cap Externals :
            heap[m].State # heap[n].State =>
                \E v, w \in dot.vertices : v # w /\ v.Node = m /\ w.Node = n

\* the (parent label, child label) of every Children entry of the Nodes in S
ChildEntries(S) == UNION {{<<n, i>> : i \in 1..Len(heap[n].Children)} : n \in S}
EntryLabels(e) == <<String(heap[e[1]].State), String(heap[heap[e[1]].Children[e[2]]].State)>>
LineLabels(l) == <<DOTID(heap, l[1]), DOTID(heap, l[2])>>
\* how many lines of the encoding carry the pair of labels ll
LinesLabelled(ll) ==
    LET ls == {l \in DOMAIN dot.lines : LineLabels(l) = ll}
        RECURSIVE Sum(_)
        Sum(S) == IF S = {} THEN 0
                  ELSE LET l == CHOOSE l \in S : TRUE
                       IN  dot.lines[l] + Sum(S \ {l})
    IN  Sum(ls)

\* C9: one edge per Children entry of every reachable Node, from the State
\* label of the parent to the State label of the child.
C9_OneEdgePerChildEntry ==
    (pc = "encoded" /\ dot.kind = "bytes") =>
        LET entries == ChildEntries(GraphNodes)
            labels == {EntryLabels(e) : e \in entries} \cup
                      {LineLabels(l) : l \in DOMAIN dot.lines}
        IN  \A ll \in labels :
               LinesLabelled(ll) = Cardinality({e \in entries : EntryLabels(e) = ll})

\* the Nodes of State s in graph g
NodesOfState(g, s) == {n \in nodesOf(g) : g.heap[n].State = s}
\* State s is an external Node of graphs[i] and a Node with a path of graphs[j]
ExternalAndLocal(s, i, j) ==
    /\ \E n \in NodesOfState(graphs[i], s) : graphs[i].heap[n].Path = NoPath
    /\ \E n \in NodesOfState(graphs[j], s) : graphs[j].heap[n].Path # NoPath

\* no Node of h reaches itself through Children
Acyclic(h) == \A n \in DOMAIN h : n \notin ReachableFrom(h, Range(h[n].Children))

DifferentPaths(s, i, j) ==
    \E n \in NodesOfState(graphs[i], s), m \in NodesOfState(graphs[j], s) :
        /\ graphs[i].heap[n].Path # NoPath
        /\ graphs[j].heap[m].Path # NoPath
        /\ graphs[i].heap[n].Path # graphs[j].heap[m].Path
\* State s has a Node with the same path p in graphs[i] and in graphs[j]
SamePath(s, p, i, j) ==
    /\ p # NoPath
    /\ \E n \in NodesOfState(graphs[i], s) : graphs[i].heap[n].Path = p
    /\ \E m \in NodesOfState(graphs[j], s) : graphs[j].heap[m].Path = p
PathConflict == \E s \in States : \E i, j \in DOMAIN graphs : DifferentPaths(s, i, j)

\* C11: when two merged graphs hold a Node with a path for one State and the
\* two paths differ, the merge ends in an error and no Graph; the path error
\* arises in no other case, and a State that two graphs hold under one and
\* the same path becomes one Node with that path.
C11_DifferentPathsFailEqualPathsUnify ==
    merged.kind # "none" =>
        /\ PathConflict => merged.kind = "error" /\ "heap" \notin DOMAIN merged
        /\ (merged.kind = "error" /\ merged.err = "path conflict") => PathConflict
        /\ merged.kind = "graph" =>
              \A s \in States : \A p \in Paths : \A i, j \in DOMAIN graphs :
                  (i # j /\ SamePath(s, p, i, j)) =>
                      Cardinality({n \in DOMAIN merged.heap :
                                      merged.heap[n].State = s}) = 1
                      /\ \A n \in DOMAIN merged.heap :
                            merged.heap[n].State = s => merged.heap[n].Path = p

\* C11 witness: two scanned directories hold one State under two paths and
\* the merge has ended in the error
C11_Witness ==
    /\ merged.kind = "error"
    /\ pc = "returned"
    /\ \E s \in States : DifferentPaths(s, 1, 2)

\* the equal-path case of C11: one deployment below two scanned directories,
\* merged into a Graph
C11_EqualPathsReached ==
    /\ merged.kind = "graph"
    /\ \E s \in States : \E p \in Paths : Len(graphs) = 2 /\ SamePath(s, p, 1, 2)

\* the Nodes, the edges and the heads of a Graph, named by State and path
NodeSet(g) == {<<g.heap[n].State, g.heap[n].Path>> : n \in nodesOf(g)}
EdgeSet(g) ==
    UNION {{<<g.heap[n].State, g.heap[c].State>> : c \in Range(g.heap[n].Children)}
           : n \in nodesOf(g)}
HeadSet(g) == {g.heap[n].State : n \in Range(g.Heads)}
SameGraph(g, h) ==
    /\ NodeSet(g) = NodeSet(h)
    /\ EdgeSet(g) = EdgeSet(h)
    /\ HeadSet(g) = HeadSet(h)
\* the inputs of the merge in the opposite order
Reversed(gs) == [i \in DOMAIN gs |-> gs[Len(gs) + 1 - i]]

\* the merge gives the same Nodes, edges and heads for the inputs in the
\* opposite order, and when the first input is merged on its own beforehand
MergeOrderAndGroupingIrrelevant ==
    merged.kind = "graph" =>
        /\ \A par \in parentChoices(unifiedNodes(Reversed(graphs))) :
              LET r == MergeGraphs(Reversed(graphs), par)
              IN  r.kind = "graph" /\ SameGraph(r, merged)
        /\ \A par1 \in parentChoices(unifiedNodes(<<graphs[1]>>)) :
              LET m1 == MergeGraphs(<<graphs[1]>>, par1)
                  gs == [graphs EXCEPT ![1] = m1]
              IN  m1.kind = "graph" =>
                     \A par2 \in parentChoices(unifiedNodes(gs)) :
                         LET r == MergeGraphs(gs, par2)
                         IN  r.kind = "graph" /\ SameGraph(r, merged)

\* the Graph merged from the scans of the directories is the Graph of one
\* buildTree over the records of all the directories
MergeEqualsSingleBuildTree ==
    merged.kind = "graph" =>
        LET all == UNION Range(dirs)
        IN  \A nodeOrder \in Perms(all), parentOrder \in Perms(all) :
               LET r == buildTree([p \in all |-> modStates[p]],
                                  [p \in all |-> modDeps[p]], nodeOrder, parentOrder)
               IN  r.kind = "graph" /\ SameGraph(r, merged)

\* C12: the Nodes, edges and heads of the merged Graph are the same for every
\* order and grouping of the inputs, and are those of the Graph a single
\* buildTree builds over the union of the records of all inputs.
C12_MergeIsOrderFreeAndEqualsSingleScan ==
    MergeOrderAndGroupingIrrelevant /\ MergeEqualsSingleBuildTree

Registered == input.backend \in DOMAIN input.staters

\* C13: for a backend type that is not a key of the registry, BackendState and
\* RemoteState of ByBackendStater return an error (no State, no panic); for a
\* registered type they return exactly what the resolver registered under
\* that type returns for the same arguments.
C13_RegistryErrorOrRegisteredResult ==
    pc = "stater" =>
        /\ output.remote # NoResult =>
              IF Registered
              THEN output.remote = S3Stater_RemoteState(input.staters[input.backend],
                                                        input.backend, input.cfg)
              ELSE output.remote = [kind |-> "error", err |-> "supported backends"]
        /\ output.backend # NoResult =>
              IF Registered
              THEN output.backend = S3Stater_BackendState(input.staters[input.backend],
                                                          input.backend, input.cfg)
              ELSE output.backend = [kind |-> "error", err |-> "supported backends"]

\* C13 witness: both methods called for a type missing from a registry that
\* holds a resolver able to read the attributes
C13_Witness ==
    /\ pc = "stater"
    /\ ~Registered
    /\ DOMAIN input.staters # {}
    /\ output.remote.kind = "error"
    /\ output.backend.kind = "error"
    /\ {"bucket", "key"} \subseteq DOMAIN input.cfg
    /\ \E b \in DOMAIN input.staters :
          S3Stater_RemoteState(input.staters[b], b, input.cfg).kind = "state"

\* the region and the encryption flag a configuration stands for: a missing
\* region is the empty string, a missing flag is false
RegionOf(c) == IF "region" \in DOMAIN c THEN c["region"].v ELSE ""
EncryptOf(c) == IF "encrypt" \in DOMAIN c THEN c["encrypt"] = Bool("true") ELSE FALSE
\* c and d name the same bucket and the same key
SameObject(c, d) ==
    /\ {"bucket", "key"} \subseteq DOMAIN c \cap DOMAIN d
    /\ c["bucket"] = d["bucket"]
    /\ c["key"] = d["key"]

\* C14: an S3Stater built with WithS3Region resolves two configurations with
\* the same bucket and key and different regions to States that are not
\* equal; one built with WithS3Encryption does so for different encrypt flags.
C14_RegionAndEncryptionDistinguish ==
    (pc = "stater" /\ Registered /\ output.remote.kind = "state") =>
        LET s == input.staters[input.backend]
        IN  \A d \in Configs :
               LET other == S3Stater_RemoteState(s, input.backend, d)
               IN  (SameObject(input.cfg, d) /\ other.kind = "state") =>
                      /\ (s.region /\ RegionOf(input.cfg) # RegionOf(d)) =>
                            other.state # output.remote.state
                      /\ (s.encryption /\ EncryptOf(input.cfg) # EncryptOf(d)) =>
                            other.state # output.remote.state

\* C15: S3Stater.RemoteState returns an error, and no State, for a
\* configuration without bucket or without key.
C15_MissingBucketOrKeyIsError ==
    (pc = "stater" /\ Registered /\ input.backend = S3Backend
        /\ output.remote # NoResult
        /\ {"bucket", "key"} \ DOMAIN input.cfg # {}) =>
            output.remote.kind = "error"

\* the terraform_remote_state resources tfconfig reports for file f
ResourcesOf(f) == {r \in DataResources(input.blocks) : r.type = TRS /\ r.file = f}
\* the terraform_remote_state blocks of file f
RemoteStateBlocks(f) ==
    SelectSeq(blocksOfFile(input.blocks, f), LAMBDA b : b.type = TRS)
\* every terraform_remote_state block of file f resolves to a State
AllResolve(f) ==
    \A i \in DOMAIN RemoteStateBlocks(f) :
        LET b == RemoteStateBlocks(f)[i]
        IN  /\ b.name # ""
            /\ parseRemoteState(b).kind = "ok"
            /\ ByBackendStater_RemoteState(mainStaters, b.body.backend,
                                           b.body.config.value).kind = "state"

\* C18: when the States resolved from a file are not as many as the
\* references tfconfig declares for it, parseTerraformRemoteStates returns an
\* error for that file and findDependencies does not succeed (it returns an
\* error, unless another file of the module made it panic before); when it
\* succeeds, every file gave as many States as it has declared references and
\* the list holds one State per declared reference.
C18_OneStatePerDeclaredReference ==
    (pc = "deps" /\ output # NoResult) =>
        /\ \A f \in 1..MaxFiles :
              (/\ ResourcesOf(f) # {}
               /\ AllResolve(f)
               /\ Len(RemoteStateBlocks(f)) # Cardinality(ResourcesOf(f)))
              => /\ parseTerraformRemoteStates(mainStaters,
                        blocksOfFile(input.blocks, f), ResourcesOf(f)).kind = "error"
                 /\ output.kind \in {"error", "panic"}
                 /\ (\A g \in 1..MaxFiles : AllResolve(g)) => output.kind = "error"
        /\ output.kind = "ok" =>
              /\ Len(output.states) =
                    Cardinality({r \in DataResources(input.blocks) : r.type = TRS})
              /\ \A f \in 1..MaxFiles :
                    ResourcesOf(f) # {} =>
                        Len(RemoteStateBlocks(f)) = Cardinality(ResourcesOf(f))

\* C18 witness: a file with two resolvable references under one name, which
\* tfconfig reports as one resource, and findDependencies has failed on the
\* count
C18_Witness ==
    /\ pc = "deps"
    /\ output = [kind |-> "error", err |-> "expected to parse"]
    /\ \E f \in 1..MaxFiles :
          /\ AllResolve(f)
          /\ Len(RemoteStateBlocks(f)) = 2
          /\ Cardinality(ResourcesOf(f)) = 1

\* directory d and the directories above it, up to the root
RECURSIVE AncestorsOrSelf(_, _)
AncestorsOrSelf(t, d) ==
    IF d = 0 THEN {} ELSE {d} \cup AncestorsOrSelf(t, t.parent[d])
\* d is a deployment root, no name from d up to the root is excluded, and no
\* directory above d is a deployment root
ExpectedRecord(d) ==
    /\ IsModuleDir(tree, d)
    /\ \A a \in AncestorsOrSelf(tree, d) : ~tree.excluded[a]
    /\ \A a \in AncestorsOrSelf(tree, d) \ {d} : ~IsModuleDir(tree, a)
Visited == Range(walk.visited)
\* filepath.Walk has returned nil and buildTree is still to be called
WalkReturnedNil == pc = "walk" /\ walk.todo = <<>>
\* the callback has returned an error or has panicked
WalkAborted ==
    /\ tree.root = "dir"
    /\ \/ result.kind = "error"
       \/ result.kind = "panic" /\ result.panic.kind = "nil pointer dereference"

\* C16: a record is produced for directory d only if d is a deployment root,
\* no directory from d up to the root has an excluded name and no directory
\* above d is a deployment root, and once the walk is over every such
\* directory has its record; a directory that is no deployment root gets no
\* record, raises no error, and its subdirectories are visited unless its
\* name is excluded.
C16_RecordIffUnexcludedOutermostRoot ==
    tree.root = "dir" =>
        /\ DOMAIN modStates = DOMAIN modDeps
        /\ \A d \in DOMAIN modStates : ExpectedRecord(d)
        /\ WalkReturnedNil =>
              DOMAIN modStates = {d \in DOMAIN tree.parent : ExpectedRecord(d)}
        /\ \A d \in Visited :
              ~IsModuleDir(tree, d) =>
                  /\ d \notin DOMAIN modStates
                  /\ WalkAborted => d # walk.visited[Len(walk.visited)]
                  /\ ~tree.excluded[d] =>
                        \A c \in DOMAIN tree.parent :
                            tree.parent[c] = d =>
                                c \in Visited \cup Range(walk.todo)

\* C16 witness: the walk is over; below a root that is no deployment lies a
\* deployment with a record, and below that a deployment without one
C16_Witness ==
    /\ WalkReturnedNil
    /\ ~IsModuleDir(tree, 1)
    /\ \E a, b \in DOMAIN tree.parent :
          /\ tree.parent[a] = 1
          /\ tree.parent[b] = a
          /\ IsModuleDir(tree, b)
          /\ a \in DOMAIN modStates
          /\ b \notin DOMAIN modStates
          /\ walk.visited = <<1, a>>

\* loading, dependency resolution or own-state resolution does not succeed
\* for the module in d
Fails(d) ==
    LET module == tree.module[d]
    IN  \/ module.loadErr
        \/ \E files \in fileOrders(module.blocks) :
              findDependencies(mainStaters, module.blocks, files).kind # "ok"
        \/ findState(mainStaters, module.tf).kind # "state"
\* the directories the callback has treated as deployments
Processed == {d \in Visited : IsModuleDir(tree, d) /\ ~tree.excluded[d]}

\* a failing deployment is the last directory visited, and a Graph is
\* returned only when no deployment met has failed
FailureStopsWalk ==
    tree.root = "dir" =>
        /\ \A d \in Processed :
              Fails(d) => /\ d = walk.visited[Len(walk.visited)]
                          /\ pc \in {"returned", "panicked"}
                          /\ result.kind \in {"error", "panic"}
                          /\ d \notin DOMAIN modStates
        /\ result.kind = "graph" =>
              \A d \in Processed : ~Fails(d) /\ d \in DOMAIN modStates

\* C17: when loading, dependency resolution or own-state resolution fails for
\* a deployment, the walk stops at it and Scan returns an error and no Graph;
\* a Graph is returned only when every deployment met was resolved.
C17_FailureStopsWalkWithError ==
    tree.root = "dir" =>
        /\ FailureStopsWalk
        /\ \A d \in Processed :
              Fails(d) => pc = "returned" /\ result.kind = "error"

\* C19: when the root does not exist, cannot be examined or is no directory,
\* Scan returns an error and no Graph, and no directory is visited and no
\* record made.
C19_BadRootFailsBeforeWalk ==
    (tree # NoResult /\ tree.root # "dir") =>
        /\ walk.visited = <<>>
        /\ modStates = EmptyMap /\ modDeps = EmptyMap
        /\ pc \in {"scanRoot", "returned"}
        /\ pc = "returned" => result.kind = "error"

\* C19 witness: Scan has returned for a root that is a file
C19_Witness ==
    /\ pc = "returned"
    /\ tree.root = "file"
    /\ result = [kind |-> "error", err |-> "it is not directory"]
    /\ walk.visited = <<>>

\* C20: every Node among the Heads of a Graph that Scan returns has no
\* Children.
C20_HeadsHaveNoChildren ==
    Returned => \A n \in Range(result.Heads) : heap[n].Children = <<>>

\* C23: BuildDOTGraph ends with the bytes of the graph for every Graph that
\* buildTree returns, also when a head leads to deployments that refer to each
\* other in a cycle.
C23_EncodingTerminates ==
    pc = "encoded" => dot.kind = "bytes"

\* C24: in every Graph that buildTree returns no Node reaches itself through
\* Children: inputs whose references hold a cycle are rejected.
C24_ReturnedGraphAcyclic ==
    Returned => Acyclic(heap)

\* State s is the own State of a scanned deployment
Owned(s) == \E p \in DOMAIN modStates : modStates[p] = s

\* C25: in a returned Graph each reference to a State that no scanned
\* deployment owns is a Node without path and without Children among the
\* Children of the declaring deployment; every Node without path has its
\* Parent set, is among the Children of that Parent and is no head; the Nodes
\* with a path are one per scanned deployment record.
C25_ExternalNodesAndLocalNodes ==
    Returned =>
        /\ \A p \in DOMAIN modDeps : \A i \in DOMAIN modDeps[p] :
              ~Owned(modDeps[p][i]) =>
                  /\ Len(heap[nodesByPath[p]].Children) = Len(modDeps[p])
                  /\ LET c == heap[nodesByPath[p]].Children[i]
                     IN  /\ heap[c].State = modDeps[p][i]
                         /\ heap[c].Path = NoPath
                         /\ heap[c].Children = <<>>
                         /\ heap[c].Parent = nodesByPath[p]
        /\ \A n \in Externals :
              /\ heap[n].Parent # Nil
              /\ n \in Range(heap[heap[n].Parent].Children)
              /\ heap[n].Children = <<>>
              /\ ~Owned(heap[n].State)
              /\ n \notin Range(result.Heads)
        /\ \A p \in DOMAIN modStates :
              /\ Cardinality({n \in DOMAIN heap : heap[n].Path = p}) = 1
              /\ heap[nodesByPath[p]].Path = p
              /\ heap[nodesByPath[p]].State = modStates[p]
        /\ \A n \in DOMAIN heap : heap[n].Path # NoPath => heap[n].Path \in DOMAIN modStates

\* C25 witness: a returned Graph in which two deployments each refer to a
\* State nobody owns
C25_Witness ==
    /\ Returned
    /\ \E n, m \in Externals :
          /\ n # m
          /\ heap[n].Parent # heap[m].Parent
          /\ heap[heap[n].Parent].Path # NoPath

\* Parent and Children of the Nodes made so far agree
ParentChildrenAgree ==
    \A n \in DOMAIN heap :
        /\ heap[n].Parent # Nil => n \in Range(heap[heap[n].Parent].Children)
        /\ (\E m \in DOMAIN heap : n \in Range(heap[m].Children)) => heap[n].Parent # Nil
\* a Parent that is set stays set
ParentStaysSet ==
    \A n \in DOMAIN heap : heap[n].Parent # Nil => heap'[n].Parent # Nil

\* C27: after every iteration of the linking loop of buildTree and in its
\* result, a Node with Parent p is among the Children of p and a Node among
\* the Children of some Node has its Parent set; no step clears a Parent.
C27_ParentAndChildrenAgree ==
    [](ParentChildrenAgree) /\ [][ParentStaysSet]_vars

\* C27 witness: inside the linking loop, a Node that two deployments refer to
\* has the second one as Parent
C27_Witness ==
    /\ pc = "link"
    /\ \E n, p, q \in DOMAIN heap :
          /\ p # q /\ p # n /\ q # n
          /\ n \in Range(heap[p].Children)
          /\ n \in Range(heap[q].Children)
          /\ heap[n].Parent = q

\* C28: in a returned Graph the Node of every scanned deployment can be
\* reached from a head through Children.
C28_EveryDeploymentReachable ==
    Returned => \A p \in DOMAIN modStates : nodesByPath[p] \in GraphNodes

\* both methods have been called on the S3Stater registered for s3, with
\* attributes out of bucket, key, region and encrypt that name a bucket and a
\* key
S3Resolved ==
    /\ pc = "stater"
    /\ Registered
    /\ input.backend = S3Backend
    /\ output.remote # NoResult
    /\ output.backend # NoResult
    /\ {"bucket", "key"} \subseteq DOMAIN input.cfg
    /\ DOMAIN input.cfg \subseteq {"bucket", "key", "region", "encrypt"}
    /\ input.cfg["bucket"].type = "string"

\* the two methods agree when all four attributes are declared
SameStateWhenAllDeclared ==
    (S3Resolved /\ DOMAIN input.cfg = {"bucket", "key", "region", "encrypt"}) =>
        output.backend.kind = "state" /\ output.backend = output.remote

\* C29: for one S3Stater and the same bucket, key, region and encrypt values,
\* BackendState returns the State that RemoteState returns.
C29_BackendStateEqualsRemoteState ==
    S3Resolved => output.backend.kind = "state" /\ output.backend = output.remote

\* the argument of the last SetSkipDirs among opts, DefaultSkipDirs as
\* declared when there is none
BaseDirs(opts) ==
    LET sets == {i \in DOMAIN opts : opts[i].kind = "SetSkipDirs"}
    IN  IF sets = {} THEN Range(InitialSkipDirs)
        ELSE Range(opts[CHOOSE i \in sets : \A j \in sets : j <= i].dirs)
\* the arguments of all AddSkipDirs among opts
AddedDirs(opts) ==
    UNION {Range(opts[i].dirs) : i \in {j \in DOMAIN opts : opts[j].kind = "AddSkipDirs"}}
ExclusionSetsAsConfigured ==
    \A i \in DOMAIN scanners :
        scanners[i].skipDirs = BaseDirs(scanners[i].opts) \cup AddedDirs(scanners[i].opts)
ScannersUntouched ==
    /\ DefaultSkipDirs' = DefaultSkipDirs
    /\ \A i \in DOMAIN scanners : scanners'[i] = scanners[i]

\* C26: the exclusion set of every Scanner is the argument of the last
\* SetSkipDirs (DefaultSkipDirs without one) united with the arguments of all
\* AddSkipDirs, wherever they stand among the options; DefaultSkipDirs keeps
\* its declared value and no NewScanner or Scan changes it or the exclusion
\* set of a Scanner made before.
C26_ExclusionSetFromOptions ==
    /\ [](ExclusionSetsAsConfigured /\ DefaultSkipDirs = InitialSkipDirs)
    /\ [][ScannersUntouched]_vars

\* C26 witness: a Scanner made with AddSkipDirs before SetSkipDirs, a second
\* one made with no option, and a Scan by the first
C26_Witness ==
    /\ pc = "scanner"
    /\ Len(scanners) = 2
    /\ scanners[1].opts = <<[kind |-> "AddSkipDirs", dirs |-> <<"a">>],
                            [kind |-> "SetSkipDirs", dirs |-> <<"b">>]>>
    /\ scanners[1].skipDirs = {"a", "b"}
    /\ scanners[2].opts = <<>>
    /\ scanners[2].skipDirs = Range(InitialSkipDirs)
    /\ output # NoResult
    /\ output.scanner = 1

\* the command has returned or has not started the scans because of an error
CommandFailed == pc = "returned" /\ result.kind = "error"
FileUntouched ==
    /\ outFile.ops = {}
    /\ outFile.content = FileBefore(input).content
RefusedExisting ==
    pc # "cli" /\ input.outFile = "exists" /\ ~input.force
        => CommandFailed /\ FileUntouched /\ graphs = <<>>
DryRunTouchesNothing == input.dryRun => FileUntouched

StepFailed ==
    \/ result.kind = "error" /\ result.err \in {"failed to scan path", "failed to merge graphs"}
    \/ dot.kind = "error"
WroteNothing ==
    /\ "write" \notin outFile.ops
    /\ outFile.stderr = <<>>

\* C22: when the scan of a directory, the merge or the encoding fails, the
\* command returns a non-nil error and writes nothing to its output.
C22_FailureIsErrorAndNoOutput ==
    pc = "returned" /\ StepFailed => result.kind = "error" /\ WroteNothing

\* C30: with --out naming an existing file and --force, the file has its
\* former content when the command has ended after a failed scan, merge or
\* encoding.
C30_ExistingFileKeptOnFailure ==
    /\ pc = "returned"
    /\ ~input.dryRun
    /\ input.outFile = "exists"
    /\ input.force
    /\ StepFailed
    => outFile.content = OldContent

====
